---- MODULE Spec2Model ----
(***************************************************************************)
(* The identity-aware reverse proxy of workload/cloudflare/src/index.ts    *)
(* (the worker that index.ts exports, lines 1-160) and the token code of   *)
(* workload/cloudflare/src/jwt.ts that it calls. Lines 162-271 of index.ts *)
(* are an earlier copy of the same worker, whose forwardRequest is a stub  *)
(* and whose identity handler reads no token; it is not what runs.         *)
(*                                                                         *)
(* Spec and SpecOne run handleRequest, concurrently and one request at a   *)
(* time. SpecKeys and SpecKeysOne run the key code of jwt.ts               *)
(* (loadPublicKey, loadSigningKey, signJWT), which index.ts does not call, *)
(* as its callers may: concurrently and one call at a time. There a read   *)
(* of the key-set record may lag behind the last put, as Workers KV        *)
(* allows; the routing record is read where it was written. SpecKeysFresh  *)
(* runs the same callers on a store whose reads never lag, and SpecBoth one *)
(* invocation of handleRequest beside one caller of the key code.          *)
(*                                                                         *)
(* Strings that the code builds by concatenation (URLs, paths, query       *)
(* strings) are sequences of tokens: <<"https://", "foo.com", "/", "path">>*)
(* is the string https://foo.com/path.                                     *)
(***************************************************************************)
EXTENDS Integers, Sequences, FiniteSets, TLC

\* ------------------------------------------------------------------ bounds

\* Invocations of the worker that may be in flight at the same time.
NumInv == 2
\* Path segments after the first one in an inbound URL.
MaxRest == 2
\* '&'-separated pieces in an inbound query string.
MaxPieces == 2
\* The clock readings Date.now()/1000 may give.
MaxNow == 1

\* Key pairs crypto.subtle.generateKey may hand out in one run.
MaxPairs == 3
\* Frames of loadSigningKey one call may stack.
MaxDepth == 3

Inv == 1..NumInv

\* ------------------------------------------------------- sequence helpers

RECURSIVE Join(_, _)
\* Array.prototype.join: the parts with sep between them.
Join(parts, sep) ==
    IF parts = <<>> THEN <<>>
    ELSE IF Len(parts) = 1 THEN Head(parts)
    ELSE Head(parts) \o <<sep>> \o Join(Tail(parts), sep)

RECURSIVE SeqsUpTo(_, _)
\* All sequences over S of length at most n.
SeqsUpTo(S, n) ==
    IF n = 0 THEN {<<>>}
    ELSE LET shorter == SeqsUpTo(S, n - 1)
         IN  shorter \cup {Append(s, x) : s \in shorter, x \in S}

RECURSIVE IndexOf(_, _, _)
\* The first index >= i of token c in s, or 0.
IndexOf(s, c, i) ==
    IF i > Len(s) THEN 0
    ELSE IF s[i] = c THEN i
    ELSE IndexOf(s, c, i + 1)

\* --------------------------------------------------- the remote documents

\* The YAML documents the remote config source may serve, by name.
Docs == {"new", "old", "mixed", "nohost", "shadow", "empty", "malformed"}

Workload(provider, host, type) ==
    [provider |-> provider, host |-> host, type |-> type]

JNull == [t |-> "null"]
JObj(table) == [t |-> "obj", obj |-> table]

\* yaml's parse(): the value a document parses to, or a thrown error.
ParseYaml(doc) ==
    CASE doc = "new" ->
           [ok |-> TRUE,
            value |-> JObj("workload1" :> Workload("example", "foo.com", "web"))]
      [] doc = "old" ->
           [ok |-> TRUE,
            value |-> JObj("oldWorkload" :> Workload("example", "example.com", "web"))]
      [] doc = "mixed" ->
           [ok |-> TRUE,
            value |-> JObj("workload1" :> Workload("example", "foo.com", "web")
                           @@ "oldWorkload" :> Workload("aws", "example.com", "web"))]
      [] doc = "nohost" ->
           [ok |-> TRUE,
            value |-> JObj("workload1" :> Workload("example", "", "web"))]
      [] doc = "shadow" ->
           [ok |-> TRUE,
            value |-> JObj("config" :> Workload("example", "foo.com", "web"))]
      [] doc = "empty" -> [ok |-> TRUE, value |-> JNull]
      [] OTHER -> [ok |-> FALSE, value |-> JNull]

\* What the remote config source may answer: a status and a document.
RemoteResponses ==
    {[status |-> 200, doc |-> d] : d \in Docs} \cup {[status |-> 429, doc |-> "empty"]}

\* The answers the concurrent specification lets the source give.
LiveResponses ==
    {[status |-> 200, doc |-> d] : d \in {"new", "old", "malformed"}}
    \cup {[status |-> 429, doc |-> "empty"]}

\* ------------------------------------------------------------ the KV store

NoRecord == [t |-> "absent"]

\* env.CONFIG.get(key, 'json'): null for a missing key, else the parsed text.
\* The text was written by JSON.stringify of a parsed document, which for
\* these values (null, objects of string fields) reads back as it was written.
KvGetJson(v) == IF v = NoRecord THEN JNull ELSE v

\* `!workloadConfig` of handleRequest: null is falsy, every object is truthy.
Falsy(j) == j = JNull

\* ------------------------------------------------------------- responses

TextBody(text) == [kind |-> "text", text |-> text]
JsonBody(j) == [kind |-> "json", json |-> j]
EmptyBody == [kind |-> "none"]
Resp(status, body) == [status |-> status, body |-> body]

NoResponse == Resp(0, EmptyBody)

\* c.text(text, {status}) and new Response(text, {status}).
TextResponse(status, text) == Resp(status, TextBody(text))

\* An exception that leaves handleRequest: the worker writes no response and
\* the platform answers for it with its own error page (status 500).
Uncaught(err) == Resp(500, [kind |-> "uncaught", thrown |-> err])

\* new HTTPException(500, {message}) of refreshConfig.
ConfigException ==
    [http |-> TRUE, status |-> 500, message |-> <<"failed to get config from github">>]
\* Any other thrown Error, with the text its toString() gives.
PlainError(text) == [http |-> FALSE, status |-> 500, message |-> text]

\* app.onError: an HTTPException answers with its own response, anything
\* else with a JSON body that carries err.toString().
OnError(err) ==
    IF err.http
    THEN TextResponse(err.status, err.message)
    ELSE Resp(500, JsonBody([t |-> "error",
                             message |-> "something went wrong",
                             err |-> err.message]))

\* Hono's default answer when no route matches.
NotFoundResponse == TextResponse(404, <<"404 Not Found">>)

\* ---------------------------------------------------------------- requests

Methods == {"GET", "POST", "PUT", "PATCH", "DELETE", "OPTIONS"}

NoBody == [present |-> FALSE, bytes |-> <<>>]
Bytes(b) == [present |-> TRUE, bytes |-> b]

\* Request.arrayBuffer(): the bytes of the body, none for a missing body.
ArrayBuffer(body) == body.bytes

\* c.req.path.split('/').filter(Boolean): the non-empty segments. A path is
\* kept as its segments after the leading slash, so /W/ is <<"W", "">>.
PathParts(path) == SelectSeq(path, LAMBDA s : s # "")

\* The path as the text the client sent.
RawPath(path) == <<"/">> \o Join([k \in 1..Len(path) |-> <<path[k]>>], "/")

\* The query as the text the client sent: nothing without a '?', else the
\* '?' and the '&'-separated pieces. A query is kept as its pieces.
RawQuery(query) ==
    IF query = <<>> THEN <<>> ELSE <<"?">> \o Join(query, "&")

\* Percent- and plus-decoding of one token of a query string.
QDecode(tok) ==
    CASE tok \in {"+", "%20"} -> " "
      [] tok = "%3D" -> "="
      [] OTHER -> tok
\* application/x-www-form-urlencoded encoding of one decoded token.
QEncode(tok) ==
    CASE tok = " " -> "+"
      [] tok = "=" -> "%3D"
      [] OTHER -> tok

\* new URL(url).searchParams: empty pieces are skipped, a piece is split at
\* its first '=' into name and value (no '=': the value is empty), and both
\* are decoded.
ParsePiece(piece) ==
    LET eq == IndexOf(piece, "=", 1)
        name == IF eq = 0 THEN piece ELSE SubSeq(piece, 1, eq - 1)
        value == IF eq = 0 THEN <<>> ELSE SubSeq(piece, eq + 1, Len(piece))
    IN  [name |-> [k \in 1..Len(name) |-> QDecode(name[k])],
         value |-> [k \in 1..Len(value) |-> QDecode(value[k])]]

SearchParams(query) ==
    LET kept == SelectSeq(query, LAMBDA p : p # <<>>)
    IN  [k \in 1..Len(kept) |-> ParsePiece(kept[k])]

\* URLSearchParams.toString(): name=value pairs joined by '&', encoded.
SearchParamsToString(params) ==
    Join([k \in 1..Len(params) |->
            [j \in 1..Len(params[k].name) |-> QEncode(params[k].name[j])]
            \o <<"=">>
            \o [j \in 1..Len(params[k].value) |-> QEncode(params[k].value[j])]],
         "&")

\* `{...c.req.raw.headers}`: object spread copies the own enumerable
\* properties of its operand, and a Headers object keeps its entries in
\* internal slots, not in properties: the spread is the empty object.
SpreadHeaders(headers) == [n \in {} |-> ""]

\* ------------------------------------------------------ the proxy dispatcher

\* The `Providers` map: the provider names that have a dispatch strategy.
Providers == {"example"}

\* A target URL that leaves the query behind.
TargetUrlNoQuery(host, pathParts, query) ==
    LET rest == SubSeq(pathParts, 2, Len(pathParts))
        remainingPath == Join([k \in 1..Len(rest) |-> <<rest[k]>>], "/")
    IN  <<"https://", host>>
        \o (IF remainingPath # <<>> THEN <<"/">> \o remainingPath ELSE <<>>)
        \o <<"?">>

\* The template literal of forwardRequest that builds targetUrl: the host,
\* a slash and the remaining path when there is one, then a '?' and the
\* re-serialised search parameters.
TargetUrl(host, pathParts, query) ==
    LET rest == SubSeq(pathParts, 2, Len(pathParts))
        remainingPath == Join([k \in 1..Len(rest) |-> <<rest[k]>>], "/")
    IN  <<"https://", host>>
        \o (IF remainingPath # <<>> THEN <<"/">> \o remainingPath ELSE <<>>)
        \o <<"?">> \o SearchParamsToString(SearchParams(query))

\* A body argument that knows POST alone.
OutboundBodyPostOnly(r) ==
    IF r.method = "POST" THEN Bytes(ArrayBuffer(r.body)) ELSE NoBody

\* The `body:` argument of the outbound fetch.
OutboundBody(r) ==
    IF r.method \in {"POST", "PUT", "PATCH"}
    THEN Bytes(ArrayBuffer(r.body))
    ELSE NoBody

\* The `headers:` argument of the outbound fetch.
OutboundHeaders(r, host) == ("host" :> host) @@ SpreadHeaders(r.headers)

\* forwardRequest up to its outbound fetch: an answer of its own (400, 404)
\* or the call it makes.
ForwardPlan(r, config) ==
    LET pathParts == PathParts(r.path)
    IN  IF pathParts = <<>>
        THEN [fetch |-> FALSE,
              response |-> TextResponse(400, <<"Invalid request path">>)]
        ELSE IF pathParts[1] \notin DOMAIN config
        THEN [fetch |-> FALSE,
              response |-> TextResponse(404, <<"Workload ", pathParts[1], " not found">>)]
        ELSE LET workload == config[pathParts[1]]
             IN  [fetch |-> TRUE,
                  call |-> [url |-> TargetUrl(workload.host, pathParts, r.query),
                            method |-> r.method,
                            headers |-> OutboundHeaders(r, workload.host),
                            body |-> OutboundBody(r)]]

\* What the outbound fetch may come to: a thrown error or a response.
BackendOutcomes ==
    {[threw |-> TRUE, error |-> <<"Network Error">>, response |-> NoResponse]}
    \cup {[threw |-> FALSE, error |-> <<>>, response |-> b] :
            b \in {TextResponse(200, <<"ok">>), Resp(204, EmptyBody),
                   TextResponse(404, <<"no such page">>),
                   TextResponse(500, <<"backend failure">>)}}

\* A catch block that tells the caller what went wrong.
ForwardResultLeaks(outcome) ==
    IF outcome.threw
    THEN TextResponse(500, <<"Error forwarding request: ">> \o outcome.error)
    ELSE outcome.response

\* A forwardRequest that answers for a backend that reports an error.
ForwardResultOkOnly(outcome) ==
    IF outcome.threw \/ outcome.response.status >= 400
    THEN TextResponse(500, <<"Error forwarding request to remote host">>)
    ELSE outcome.response

\* forwardRequest after its outbound fetch: the backend's response as it
\* is, or the fixed message of the catch block.
ForwardResult(outcome) ==
    IF outcome.threw
    THEN TextResponse(500, <<"Error forwarding request to remote host">>)
    ELSE outcome.response

\* ------------------------------------------------------- token verification

\* The key ids the identity provider publishes at its certs endpoint.
AccessKids == {"k1"}

\* A token by what parseJWT and verifyToken look at: how many '.'-separated
\* segments it has, whether header and payload decode to JSON, the kid of
\* its header, the key that made its signature, and the payload's claims.
Token(segments, decodes, kid, signer, exp, email) ==
    [segments |-> segments, decodes |-> decodes, kid |-> kid,
     signer |-> signer, exp |-> exp, email |-> email]

\* '' : what getUserAndHistory passes when the cookie is missing.
EmptyToken == Token(1, FALSE, "", "", 0, "")

\* What verifyToken comes to: claims or a thrown error, and how many times
\* it called the certs endpoint and crypto.subtle.verify on the way.
Verdict(ok, text, fetches, checks) ==
    [ok |-> ok, err |-> PlainError(text), fetches |-> fetches, checks |-> checks]

\* A verifyToken that resolves the key before it looks at the token's form.
VerifyTokenFetchesFirst(token, time, jwks) ==
    IF token.segments # 3
    THEN Verdict(FALSE, <<"Error: token must have 3 parts">>, 1, 0)
    ELSE IF ~token.decodes
    THEN Verdict(FALSE, <<"SyntaxError">>, 1, 0)
    ELSE IF token.kid \notin jwks
    THEN Verdict(FALSE, <<"TypeError">>, 1, 0)
    ELSE IF token.signer # token.kid
    THEN Verdict(FALSE, <<"Error: failed to verify token">>, 1, 1)
    ELSE IF token.exp < time
    THEN Verdict(FALSE, <<"Error: expired token">>, 1, 1)
    ELSE Verdict(TRUE, <<>>, 1, 1)

\* A verifyToken that takes every token whose signature is good.
VerifyTokenNoExpiry(token, time, jwks) ==
    IF token.segments # 3
    THEN Verdict(FALSE, <<"Error: token must have 3 parts">>, 0, 0)
    ELSE IF ~token.decodes
    THEN Verdict(FALSE, <<"SyntaxError">>, 0, 0)
    ELSE IF token.kid \notin jwks
    THEN Verdict(FALSE, <<"TypeError">>, 1, 0)
    ELSE IF token.signer # token.kid
    THEN Verdict(FALSE, <<"Error: failed to verify token">>, 1, 1)
    ELSE Verdict(TRUE, <<>>, 1, 1)

\* verifyToken against the key ids jwks that the certs endpoint answers
\* with: parseJWT, fetchAccessPublicKey (whose importKey throws a TypeError
\* when no key has the token's kid), the signature, the expiry.
VerifyTokenWith(token, time, jwks) ==
    IF token.segments # 3
    THEN Verdict(FALSE, <<"Error: token must have 3 parts">>, 0, 0)
    ELSE IF ~token.decodes
    THEN Verdict(FALSE, <<"SyntaxError">>, 0, 0)
    ELSE IF token.kid \notin jwks
    THEN Verdict(FALSE, <<"TypeError">>, 1, 0)
    ELSE IF token.signer # token.kid
    THEN Verdict(FALSE, <<"Error: failed to verify token">>, 1, 1)
    ELSE IF token.exp < time
    THEN Verdict(FALSE, <<"Error: expired token">>, 1, 1)
    ELSE Verdict(TRUE, <<>>, 1, 1)

\* verifyToken as the worker runs it: the certs endpoint is the identity
\* provider's.
VerifyToken(token, time) == VerifyTokenWith(token, time, AccessKids)

\* A getUserAndHistory that answers before it has looked at the token.
UserAndHistoryOpen(token, time) ==
    Resp(200, JsonBody([t |-> "identity",
            user |-> IF token.email # "" THEN token.email ELSE "unknown user",
            history |-> <<"insert identity history0 here",
                          "insert identity history1 here">>]))

\* A getUserAndHistory without the default for a missing email claim.
UserAndHistoryNoDefault(token, time) ==
    LET v == VerifyToken(token, time)
    IN  IF v.ok
        THEN Resp(200, JsonBody([t |-> "identity",
                user |-> token.email,
                history |-> <<"insert identity history0 here",
                              "insert identity history1 here">>]))
        ELSE OnError(v.err)

\* getUserAndHistory: the identity of a verified caller.
UserAndHistory(token, time) ==
    LET v == VerifyToken(token, time)
    IN  IF v.ok
        THEN Resp(200, JsonBody([t |-> "identity",
                user |-> IF token.email # "" THEN token.email ELSE "unknown user",
                history |-> <<"insert identity history0 here",
                              "insert identity history1 here">>]))
        ELSE OnError(v.err)

\* ------------------------------------------------------------ the key set

\* The pairs crypto.subtle.generateKey gives, in the order it gives them:
\* no pair comes twice.
KeyPairs == <<"pair1", "pair2", "pair3", "pair4">>

\* exportKey('jwk', ...) of the two halves of a pair.
PublicJwk(pair) == [pair |-> pair, half |-> "public"]
PrivateJwk(pair) == [pair |-> pair, half |-> "private"]

\* generateKID: the hex SHA-1 of the public JWK's text, one kid per public
\* key (collisions of the hash are left out).
GenerateKID(publicKey) ==
    CASE publicKey.pair = "pair1" -> "kid1"
      [] publicKey.pair = "pair2" -> "kid2"
      [] publicKey.pair = "pair3" -> "kid3"
      [] OTHER -> "kid4"

\* The record generateKeys stores: {public, private, kid}.
KeySet(pair) ==
    [t |-> "keyset", public |-> PublicJwk(pair), private |-> PrivateJwk(pair),
     kid |-> GenerateKID(PublicJwk(pair))]

\* ------------------------------------------------------ the token encoding

\* The strings a payload's email claim may hold, by their UTF-16 code
\* units; \\uXXXX in a name stands for that one code unit.
CharCodes ==
    ("" :> <<>>)
    @@ ("a@b" :> <<97, 64, 98>>)
    @@ ("\\u00e9@b" :> <<233, 64, 98>>)
    @@ ("\\u20ac@b" :> <<8364, 64, 98>>)
    @@ ("\\u00c3\\u00a9@b" :> <<195, 169, 64, 98>>)
    @@ ("\\ufffd@b" :> <<65533, 64, 98>>)

\* The string of a sequence of code units.
FromCharCodes(codes) ==
    IF \E n \in DOMAIN CharCodes : CharCodes[n] = codes
    THEN CHOOSE n \in DOMAIN CharCodes : CharCodes[n] = codes
    ELSE "?"

\* asciiToUint8Array: charCodeAt of every unit, stored in a Uint8Array,
\* which keeps the low eight bits.
AsciiToUint8Array(codes) == [k \in 1..Len(codes) |-> codes[k] % 256]

RECURSIVE Utf8Decode(_)
\* TextDecoder('utf-8').decode: one- and two-byte sequences; a byte that
\* starts no such sequence decodes to U+FFFD.
Utf8Decode(bytes) ==
    IF bytes = <<>> THEN <<>>
    ELSE LET b == Head(bytes)
             rest == Tail(bytes)
         IN  IF b < 128
             THEN <<b>> \o Utf8Decode(rest)
             ELSE IF /\ b >= 194 /\ b <= 223 /\ rest # <<>>
                     /\ Head(rest) >= 128 /\ Head(rest) <= 191
             THEN <<(b - 192) * 64 + (Head(rest) - 128)>> \o Utf8Decode(Tail(rest))
             ELSE <<65533>> \o Utf8Decode(rest)

\* A payload: the claims signJWT is given.
Payload(exp, email) == [exp |-> exp, email |-> email]

\* A payload written by signJWT (JSON.stringify, asciiToUint8Array,
\* base64url.stringify) and read back by parseJWT (base64url.parse,
\* TextDecoder, JSON.parse). The digits, quotes and braces of the JSON text
\* are ASCII and come back as they went.
DecodePayload(payload) ==
    Payload(payload.exp,
            FromCharCodes(Utf8Decode(AsciiToUint8Array(CharCodes[payload.email]))))

\* signJWT with the handle loadSigningKey returned: the header names the
\* handle's kid, the signature is made with the handle's private key.
SignedToken(handle, payload) ==
    LET read == DecodePayload(payload)
    IN  Token(3, TRUE, handle.kid, GenerateKID(PublicJwk(handle.privateKey.pair)),
              read.exp, read.email)

\* The claims verifyToken returns for a token: its decoded payload.
Claims(token) == Payload(token.exp, token.email)

\* ------------------------------------------------------------------ routes

\* Routes that hand every path but /config to the provider.
RouteOfEveryPath(r, config) ==
    IF r.method = "GET" /\ r.path = <<"config">>
    THEN "config"
    ELSE IF r.method \in {"GET", "POST", "PUT", "DELETE", "PATCH"}
    THEN "provider"
    ELSE "none"

\* Routes registered for GET alone.
RouteOfGetOnly(r, config) ==
    LET routed == {w \in DOMAIN config : config[w].provider \in Providers}
        first == IF r.path = <<>> THEN "" ELSE r.path[1]
    IN  IF first \in routed /\ r.method = "GET"
        THEN "provider"
        ELSE IF r.method = "GET" /\ r.path = <<"config">>
        THEN "config"
        ELSE IF r.method = "GET"
        THEN "identity"
        ELSE "none"

\* The handler Hono runs for a request, given the table the routes were
\* registered from: the first registered route that matches. A pattern
\* /W/* also matches /W itself; /config matches that path alone.
RouteOf(r, config) ==
    LET routed == {w \in DOMAIN config : config[w].provider \in Providers}
        first == IF r.path = <<>> THEN "" ELSE r.path[1]
    IN  IF /\ first \in routed
           /\ \/ r.method = "GET" /\ Len(r.path) = 1
              \/ r.method \in {"GET", "POST", "PUT", "DELETE", "PATCH"}
        THEN "provider"
        ELSE IF r.method = "GET" /\ r.path = <<"config">>
        THEN "config"
        ELSE IF r.method = "GET"
        THEN "identity"
        ELSE "none"

\* ---------------------------------------------------------- request sets

Req(method, path, query, headers, body, cookie) ==
    [method |-> method, path |-> path, query |-> query,
     headers |-> headers, body |-> body, cookie |-> cookie]

\* The headers a client may send besides its cookie.
HostOnly == "host" :> "example.com"
WithContentType == HostOnly @@ "content-type" :> "application/json"

GoodToken == Token(3, TRUE, "k1", "k1", 1, "user@example.com")
\* The cookies a client may send: none, and tokens that fail any of the
\* checks of verifyToken, in every combination, or pass them all.
Tokens ==
    {EmptyToken}
    \cup {Token(n, d, kid, signer, exp, email) :
            n \in {2, 3, 4}, d \in BOOLEAN, kid \in {"k1", "k9"},
            signer \in {"k1", "k9"}, exp \in 0..MaxNow,
            email \in {"", "user@example.com"}}

\* First path segments: the workload names of the documents and two others.
FirstSegments == {"workload1", "oldWorkload", "config", "doesnotexist", ""}
RestSegments == {"", "path"}
Paths == {<<f>> \o rest : f \in FirstSegments, rest \in SeqsUpTo(RestSegments, MaxRest)}

\* The '&'-separated pieces of a query string, as tokens.
Pieces ==
    {<<>>, <<"k">>, <<"k", "=">>, <<"k", "=", "v">>, <<"k", "=", "w">>,
     <<"j", "=", "%20">>, <<"j", "=", "+">>, <<"k", "=", "=">>}
Queries == SeqsUpTo(Pieces, MaxPieces)

Bodies == {NoBody, Bytes(<<>>), Bytes(<<123, 125>>)}

\* The requests of the single-invocation specification: every path with and
\* without a query, every query on one path, and every method with every
\* body and header set on the paths of one workload.
RichRequests ==
    {Req("GET", p, q, HostOnly, NoBody, EmptyToken) :
        p \in Paths, q \in {<<>>, << <<"k", "=", "v">> >>}}
    \cup {Req("GET", <<"workload1", "path">>, q, WithContentType, NoBody, EmptyToken) :
            q \in Queries}
    \cup {Req(m, p, <<>>, h, b, EmptyToken) :
            m \in Methods, h \in {HostOnly, WithContentType}, b \in Bodies,
            p \in {<<"workload1">>, <<"workload1", "path">>,
                   <<"oldWorkload", "path">>, <<"doesnotexist">>}}
    \cup {Req("GET", p, <<>>, HostOnly, NoBody, c) :
            c \in Tokens, p \in {<<"">>, <<"doesnotexist">>}}

\* The requests of the concurrent specification.
Requests ==
    {Req("GET", <<"config">>, <<>>, HostOnly, NoBody, EmptyToken),
     Req("GET", <<"workload1", "path">>, << <<"k", "=", "v">> >>, HostOnly, NoBody, EmptyToken)}

NoRequest == Req("", <<>>, <<>>, [n \in {} |-> ""], NoBody, EmptyToken)

\* ------------------------------------------------------------------- state

ConfigKey == "workload_config"
SigningKey == "keys"

VARIABLES
    store,           \* the KV namespace CONFIG: storage key -> record
    remote,          \* what the remote config source answers at the moment
    pc,              \* where each invocation of handleRequest stands
    req,             \* its request
    phase,           \* "cold": loading in handleRequest; "handler": in GET /config
    workloadConfig,  \* its routing table (the local of handleRequest)
    resp,            \* what the remote source answered its last refreshConfig
    jsonData,        \* the document refreshConfig parsed and has yet to put
    outbound,        \* the calls it made to a backend
    outcome,         \* what its outbound fetch came to
    response,        \* its answer to the caller
    now,             \* the time in seconds at which its verifyToken ran
    certFetches,     \* the calls its verifyToken made to the certs endpoint
    effects,         \* its reads and puts of the routing record and its
                     \* fetches of the remote source, in the order it made them
    lagging,         \* the earlier key-set record that a read may still return
    minted,          \* how many key pairs generateKey has handed out
    lastKid,            \* the key id that the last call to return gave its caller
    kpc,             \* where each caller of the key code stands
    call,            \* the function it called, and the payload it passed
    depth,           \* how many frames of loadSigningKey it has entered
    generated,       \* how many pairs it has generated in this call
    result           \* what the call has returned so far

handlerVars == <<remote, pc, req, phase, workloadConfig, resp, jsonData,
                 outbound, outcome, response, now, certFetches, effects>>
keyVars == <<lagging, minted, lastKid, kpc, call, depth, generated, result>>
vars == <<store, handlerVars, keyVars>>

NoOutcome == [threw |-> FALSE, error |-> <<>>, response |-> NoResponse]

\* refreshConfig has not fetched yet.
NoFetch == [status |-> 0, doc |-> "empty"]

\* No call of the key code is under way, and none has returned.
NoCall == [op |-> "", payload |-> Payload(0, "")]
NoResult == [kind |-> "none"]

\* A fresh deployment: nothing stored, no invocation running.
InitWith(answers) ==
    /\ store = [k \in {ConfigKey, SigningKey} |-> NoRecord]
    /\ remote \in answers
    /\ pc = [i \in Inv |-> "idle"]
    /\ req = [i \in Inv |-> NoRequest]
    /\ phase = [i \in Inv |-> "cold"]
    /\ workloadConfig = [i \in Inv |-> JNull]
    /\ resp = [i \in Inv |-> NoFetch]
    /\ jsonData = [i \in Inv |-> JNull]
    /\ outbound = [i \in Inv |-> <<>>]
    /\ outcome = [i \in Inv |-> NoOutcome]
    /\ response = [i \in Inv |-> NoResponse]
    /\ now = [i \in Inv |-> 0]
    /\ certFetches = [i \in Inv |-> 0]
    /\ effects = [i \in Inv |-> <<>>]
    /\ lagging = {}
    /\ minted = 0
    /\ lastKid = ""
    /\ kpc = [i \in Inv |-> "idle"]
    /\ call = [i \in Inv |-> NoCall]
    /\ depth = [i \in Inv |-> 0]
    /\ generated = [i \in Inv |-> 0]
    /\ result = [i \in Inv |-> NoResult]

Init == InitWith(LiveResponses)
InitOne == InitWith(RemoteResponses)

\* What a read of the routing record came to, as handleRequest tests it.
Got(config) == IF Falsy(config) THEN "get:null" ELSE "get:table"

\* The table of a JSON value as `for (const workloadName in ...)` and
\* `config[workloadName]` see it: null has no names.
Table(j) == IF j.t = "obj" THEN j.obj ELSE [n \in {} |-> Workload("", "", "")]

\* The platform hands a request to handleRequest.
Receive(i, r) ==
    /\ pc[i] = "idle"
    /\ pc' = [pc EXCEPT ![i] = "load"]
    /\ req' = [req EXCEPT ![i] = r]
    /\ UNCHANGED <<store, remote, phase, workloadConfig, resp, jsonData,
                   outbound, outcome, response>>
    /\ UNCHANGED <<now, certFetches, effects>>
    /\ UNCHANGED keyVars

\* A handleRequest that goes on to its routes with whatever it read.
LoadConfigRoutesAtOnce(i) ==
    /\ pc[i] = "load"
    /\ workloadConfig' = [workloadConfig EXCEPT ![i] = KvGetJson(store[ConfigKey])]
    /\ pc' = [pc EXCEPT ![i] = "route"]
    /\ phase' = [phase EXCEPT ![i] = "cold"]
    /\ effects' = [effects EXCEPT ![i] = Append(@, Got(KvGetJson(store[ConfigKey])))]
    /\ UNCHANGED <<store, remote, req, resp, jsonData, outbound, outcome, response>>
    /\ UNCHANGED <<now, certFetches>>
    /\ UNCHANGED keyVars

\* handleRequest: `await env.CONFIG.get(getConfigKey(env), 'json')` and the
\* test of its result.
LoadConfig(i) ==
    /\ pc[i] = "load"
    /\ LET config == KvGetJson(store[ConfigKey])
       IN  /\ workloadConfig' = [workloadConfig EXCEPT ![i] = config]
           /\ pc' = [pc EXCEPT ![i] = IF Falsy(config) THEN "refresh" ELSE "route"]
           /\ effects' = [effects EXCEPT ![i] = Append(@, Got(config))]
    /\ phase' = [phase EXCEPT ![i] = "cold"]
    /\ UNCHANGED <<store, remote, req, resp, jsonData, outbound, outcome, response>>
    /\ UNCHANGED <<now, certFetches>>
    /\ UNCHANGED keyVars

\* Where an error thrown by refreshConfig ends: thrown from handleRequest
\* itself it leaves the worker, thrown from the GET /config handler it
\* reaches app.onError.
Thrown(i, err) == IF phase[i] = "cold" THEN Uncaught(err) ELSE OnError(err)

\* refreshConfig up to its put: the fetch, the status check and the parse.
RefreshResult(answer) ==
    IF answer.status # 200
    THEN [ok |-> FALSE, err |-> ConfigException, value |-> JNull]
    ELSE LET parsed == ParseYaml(answer.doc)
         IN  IF parsed.ok
             THEN [ok |-> TRUE, err |-> PlainError(<<>>), value |-> parsed.value]
             ELSE [ok |-> FALSE, err |-> PlainError(<<"YAMLParseError">>), value |-> JNull]

\* A refresh that stores what it parsed before it looks at the status.
RefreshFetchStoresFirst(i) ==
    /\ pc[i] = "refresh"
    /\ resp' = [resp EXCEPT ![i] = remote]
    /\ store' = [store EXCEPT ![ConfigKey] = ParseYaml(remote.doc).value]
    /\ LET r == RefreshResult(remote)
       IN  IF r.ok
           THEN /\ jsonData' = [jsonData EXCEPT ![i] = r.value]
                /\ pc' = [pc EXCEPT ![i] = "put"]
                /\ UNCHANGED response
           ELSE /\ response' = [response EXCEPT ![i] = Thrown(i, r.err)]
                /\ pc' = [pc EXCEPT ![i] = "done"]
                /\ UNCHANGED jsonData
    /\ effects' = [effects EXCEPT ![i] = Append(@, "fetch")]
    /\ UNCHANGED <<remote, req, phase, workloadConfig, outbound, outcome>>
    /\ UNCHANGED <<now, certFetches>>
    /\ UNCHANGED keyVars

RefreshFetch(i) ==
    /\ pc[i] = "refresh"
    /\ resp' = [resp EXCEPT ![i] = remote]
    /\ LET r == RefreshResult(remote)
       IN  IF r.ok
           THEN /\ jsonData' = [jsonData EXCEPT ![i] = r.value]
                /\ pc' = [pc EXCEPT ![i] = "put"]
                /\ UNCHANGED response
           ELSE /\ response' = [response EXCEPT ![i] = Thrown(i, r.err)]
                /\ pc' = [pc EXCEPT ![i] = "done"]
                /\ UNCHANGED jsonData
    /\ effects' = [effects EXCEPT ![i] = Append(@, "fetch")]
    /\ UNCHANGED <<store, remote, req, phase, workloadConfig, outbound, outcome>>
    /\ UNCHANGED <<now, certFetches>>
    /\ UNCHANGED keyVars

\* A put that merges the new document into the record it finds.
PutConfigMerged(old, data) ==
    IF old # NoRecord /\ old.t = "obj" /\ data.t = "obj"
    THEN JObj(data.obj @@ old.obj)
    ELSE data

\* A put that removes the record when the document has not changed.
PutConfigUnlessSame(old, data) == IF old = data THEN NoRecord ELSE data

\* The record `env.CONFIG.put(getConfigKey(env), JSON.stringify(jsonData))`
\* leaves under the key: the new document in place of the old record.
PutConfig(old, data) == data

\* A refreshConfig whose put adds the workloads of its document to the
\* record one by one and leaves the others of the record where they are.
RefreshPutByEntry(i) ==
    /\ pc[i] = "put"
    /\ store' = [store EXCEPT ![ConfigKey] =
            IF @ # NoRecord /\ @.t = "obj" /\ jsonData[i].t = "obj"
            THEN JObj(jsonData[i].obj @@ @.obj)
            ELSE jsonData[i]]
    /\ IF phase[i] = "cold"
       THEN /\ workloadConfig' = [workloadConfig EXCEPT ![i] = jsonData[i]]
            /\ pc' = [pc EXCEPT ![i] = "route"]
            /\ UNCHANGED response
       ELSE /\ response' = [response EXCEPT ![i] = Resp(200, JsonBody(jsonData[i]))]
            /\ pc' = [pc EXCEPT ![i] = "done"]
            /\ UNCHANGED workloadConfig
    /\ effects' = [effects EXCEPT ![i] = Append(@, "put")]
    /\ UNCHANGED <<remote, req, phase, resp, jsonData, outbound, outcome>>
    /\ UNCHANGED <<now, certFetches>>
    /\ UNCHANGED keyVars

\* refreshConfig from its put on, and what its caller does with the result:
\* handleRequest keeps it as its table, GET /config answers with it.
RefreshPut(i) ==
    /\ pc[i] = "put"
    /\ store' = [store EXCEPT ![ConfigKey] = PutConfig(store[ConfigKey], jsonData[i])]
    /\ IF phase[i] = "cold"
       THEN /\ workloadConfig' = [workloadConfig EXCEPT ![i] = jsonData[i]]
            /\ pc' = [pc EXCEPT ![i] = "route"]
            /\ UNCHANGED response
       ELSE /\ response' = [response EXCEPT ![i] = Resp(200, JsonBody(jsonData[i]))]
            /\ pc' = [pc EXCEPT ![i] = "done"]
            /\ UNCHANGED workloadConfig
    /\ effects' = [effects EXCEPT ![i] = Append(@, "put")]
    /\ UNCHANGED <<remote, req, phase, resp, jsonData, outbound, outcome>>
    /\ UNCHANGED <<now, certFetches>>
    /\ UNCHANGED keyVars

\* handleRequest from `new Hono()` to the handler app.fetch runs, and that
\* handler up to its first await.
Route(i) ==
    /\ pc[i] = "route"
    /\ LET config == Table(workloadConfig[i])
           handler == RouteOf(req[i], config)
           plan == ForwardPlan(req[i], config)
       IN  CASE handler = "provider" /\ plan.fetch ->
                  /\ outbound' = [outbound EXCEPT ![i] = Append(@, plan.call)]
                  /\ pc' = [pc EXCEPT ![i] = "backend"]
                  /\ UNCHANGED <<phase, response>>
             [] handler = "provider" /\ ~plan.fetch ->
                  /\ response' = [response EXCEPT ![i] = plan.response]
                  /\ pc' = [pc EXCEPT ![i] = "done"]
                  /\ UNCHANGED <<phase, outbound>>
             [] handler = "config" ->
                  /\ phase' = [phase EXCEPT ![i] = "handler"]
                  /\ pc' = [pc EXCEPT ![i] = "refresh"]
                  /\ UNCHANGED <<outbound, response>>
             [] handler = "identity" ->
                  /\ pc' = [pc EXCEPT ![i] = "identity"]
                  /\ UNCHANGED <<phase, outbound, response>>
             [] OTHER ->
                  /\ response' = [response EXCEPT ![i] = NotFoundResponse]
                  /\ pc' = [pc EXCEPT ![i] = "done"]
                  /\ UNCHANGED <<phase, outbound>>
    /\ UNCHANGED <<store, remote, req, workloadConfig, resp, jsonData, outcome>>
    /\ UNCHANGED <<now, certFetches, effects>>
    /\ UNCHANGED keyVars

\* forwardRequest from the return of its outbound fetch.
BackendReply(i, o) ==
    /\ pc[i] = "backend"
    /\ outcome' = [outcome EXCEPT ![i] = o]
    /\ response' = [response EXCEPT ![i] = ForwardResult(o)]
    /\ pc' = [pc EXCEPT ![i] = "done"]
    /\ UNCHANGED <<store, remote, req, phase, workloadConfig, resp, jsonData, outbound>>
    /\ UNCHANGED <<now, certFetches, effects>>
    /\ UNCHANGED keyVars

\* getUserAndHistory, with the clock reading verifyToken takes.
GetUserAndHistory(i, time) ==
    /\ pc[i] = "identity"
    /\ response' = [response EXCEPT ![i] = UserAndHistory(req[i].cookie, time)]
    /\ now' = [now EXCEPT ![i] = time]
    /\ certFetches' = [certFetches EXCEPT ![i] = VerifyToken(req[i].cookie, time).fetches]
    /\ pc' = [pc EXCEPT ![i] = "done"]
    /\ UNCHANGED <<store, remote, req, phase, workloadConfig, resp, jsonData,
                   outbound, outcome, effects>>
    /\ UNCHANGED keyVars

\* The response is handed back and the invocation ends; nothing of it is
\* kept for the next one.
Return(i) ==
    /\ pc[i] = "done"
    /\ pc' = [pc EXCEPT ![i] = "idle"]
    /\ req' = [req EXCEPT ![i] = NoRequest]
    /\ phase' = [phase EXCEPT ![i] = "cold"]
    /\ workloadConfig' = [workloadConfig EXCEPT ![i] = JNull]
    /\ resp' = [resp EXCEPT ![i] = NoFetch]
    /\ jsonData' = [jsonData EXCEPT ![i] = JNull]
    /\ outbound' = [outbound EXCEPT ![i] = <<>>]
    /\ outcome' = [outcome EXCEPT ![i] = NoOutcome]
    /\ response' = [response EXCEPT ![i] = NoResponse]
    /\ now' = [now EXCEPT ![i] = 0]
    /\ certFetches' = [certFetches EXCEPT ![i] = 0]
    /\ effects' = [effects EXCEPT ![i] = <<>>]
    /\ UNCHANGED <<store, remote>>
    /\ UNCHANGED keyVars

\* The remote config source starts to answer something else.
RemoteChange(r) ==
    /\ r # remote
    /\ remote' = r
    /\ UNCHANGED <<store, pc, req, phase, workloadConfig, resp, jsonData,
                   outbound, outcome, response>>
    /\ UNCHANGED <<now, certFetches, effects>>
    /\ UNCHANGED keyVars

Step(i) ==
    \/ LoadConfig(i)
    \/ RefreshFetch(i)
    \/ RefreshPut(i)
    \/ Route(i)
    \/ \E o \in BackendOutcomes : BackendReply(i, o)
    \/ \E time \in 0..MaxNow : GetUserAndHistory(i, time)
    \/ Return(i)

\* Invocations in flight together, on a small set of requests.
Next ==
    \/ \E i \in Inv, r \in Requests : Receive(i, r)
    \/ \E i \in Inv : Step(i)
    \/ \E r \in LiveResponses : RemoteChange(r)

Spec == Init /\ [][Next]_vars

\* One invocation at a time, on every request.
NextOne ==
    \/ \E r \in RichRequests : Receive(1, r)
    \/ Step(1)
    \/ \E r \in RemoteResponses : RemoteChange(r)

SpecOne == InitOne /\ [][NextOne]_vars

\* ------------------------------------------------------------ the key code

\* The functions of jwt.ts that load or create the key set.
KeyOps == {"loadPublicKey", "loadSigningKey", "signJWT"}

\* The payloads a caller may ask signJWT to sign.
Payloads ==
    {Payload(exp, email) :
        exp \in 0..MaxNow,
        email \in {"", "a@b", "\\u00e9@b", "\\u20ac@b", "\\u00c3\\u00a9@b"}}

\* What env.CONFIG.get of the key-set key may return: the record last put,
\* or the one the key held before it (KV is eventually consistent, for a key
\* that was missing as for one that changed).
Readable == {store[SigningKey]} \cup lagging

\* The stack of the key code of caller i: the frames of loadSigningKey it
\* has entered and the pairs it has generated.
Stack(i, d, g) ==
    /\ depth' = [depth EXCEPT ![i] = d]
    /\ generated' = [generated EXCEPT ![i] = g]

\* loadPublicKey or loadSigningKey returns r to where it was called from
\* outside the key code; its frames are gone.
Finish(i, r, next) ==
    /\ result' = [result EXCEPT ![i] = r]
    /\ kpc' = [kpc EXCEPT ![i] = next]
    /\ Stack(i, 0, 0)

\* A caller calls loadPublicKey, loadSigningKey or signJWT.
Call(i, op, payload) ==
    /\ kpc[i] = "idle"
    /\ call' = [call EXCEPT ![i] = [op |-> op, payload |-> payload]]
    /\ kpc' = [kpc EXCEPT ![i] = IF op = "loadPublicKey" THEN "loadPublicKey"
                                                          ELSE "loadSigningKey"]
    /\ depth' = [depth EXCEPT ![i] = IF op = "loadPublicKey" THEN 0 ELSE 1]
    /\ UNCHANGED <<store, handlerVars, lagging, minted, lastKid, generated, result>>

\* loadSigningKey: the read of the record and the test of it. A record gives
\* the handle {kid, privateKey}; without one loadPublicKey is called.
LoadSigningKey(i, v) ==
    /\ kpc[i] = "loadSigningKey"
    /\ v # NoRecord \/ depth[i] < MaxDepth
    /\ IF v # NoRecord
       THEN Finish(i, [kind |-> "handle", kid |-> v.kid, privateKey |-> v.private],
                   IF call[i].op = "signJWT" THEN "sign" ELSE "done")
       ELSE /\ kpc' = [kpc EXCEPT ![i] = "loadPublicKey"]
            /\ Stack(i, depth[i], generated[i])
            /\ UNCHANGED result
    /\ UNCHANGED <<store, handlerVars, lagging, minted, lastKid, call>>

\* Where loadPublicKey returns to with the key of kid, when the call has
\* generated g pairs: its caller, or the loadSigningKey that called it,
\* which then calls itself.
AfterLoadPublicKey(i, kid, g) ==
    IF call[i].op = "loadPublicKey"
    THEN Finish(i, [kind |-> "jwk", kid |-> kid], "done")
    ELSE /\ kpc' = [kpc EXCEPT ![i] = "loadSigningKey"]
         /\ Stack(i, depth[i] + 1, g)
         /\ UNCHANGED result

\* A loadPublicKey that makes a new pair whatever it read.
LoadPublicKeyRegenerates(i, v) ==
    /\ kpc[i] = "loadPublicKey"
    /\ kpc' = [kpc EXCEPT ![i] = "generateKeys"]
    /\ UNCHANGED <<store, handlerVars, lagging, minted, lastKid, call, depth,
                   generated, result>>

\* loadPublicKey: the read of the record and the test of it. A record is
\* returned as it is; without one generateKeys is called.
LoadPublicKey(i, v) ==
    /\ kpc[i] = "loadPublicKey"
    /\ IF v # NoRecord
       THEN AfterLoadPublicKey(i, v.kid, generated[i])
       ELSE /\ kpc' = [kpc EXCEPT ![i] = "generateKeys"]
            /\ Stack(i, depth[i], generated[i])
            /\ UNCHANGED result
    /\ UNCHANGED <<store, handlerVars, lagging, minted, lastKid, call>>

\* A generateKeys that writes the public half and the kid into the record
\* it finds, and the private half only into a new record.
GenerateKeysMerging(i, accepted) ==
    /\ kpc[i] = "generateKeys"
    /\ minted < MaxPairs
    /\ IF accepted
       THEN /\ minted' = minted + 1
            /\ store' = [store EXCEPT ![SigningKey] =
                    IF @ = NoRecord
                    THEN KeySet(KeyPairs[minted + 1])
                    ELSE [@ EXCEPT !.public = PublicJwk(KeyPairs[minted + 1]),
                                   !.kid = KeySet(KeyPairs[minted + 1]).kid]]
            /\ lagging' = {store[SigningKey]}
            /\ AfterLoadPublicKey(i, KeySet(KeyPairs[minted + 1]).kid,
                                  generated[i] + 1)
       ELSE /\ Finish(i, [kind |-> "error", text |-> "failed to generate keyset"],
                      "done")
            /\ UNCHANGED <<store, lagging, minted>>
    /\ UNCHANGED <<handlerVars, lastKid, call>>

\* generateKeys: a new pair, its two JWKs and its kid, and the put that
\* writes the record whole under the key; the pair goes back to
\* loadPublicKey. The pair, the JWKs and the kid are locals of the call, so
\* the awaits between generateKey and the put let no other caller at them:
\* the steps are taken as one. When a step of it throws (a put that the
\* store refuses), the call ends with 'failed to generate keyset' and nobody
\* has seen the pair.
GenerateKeys(i, accepted) ==
    /\ kpc[i] = "generateKeys"
    /\ minted < MaxPairs
    /\ IF accepted
       THEN /\ minted' = minted + 1
            /\ store' = [store EXCEPT ![SigningKey] = KeySet(KeyPairs[minted + 1])]
            /\ lagging' = {store[SigningKey]}
            /\ AfterLoadPublicKey(i, KeySet(KeyPairs[minted + 1]).kid,
                                  generated[i] + 1)
       ELSE /\ Finish(i, [kind |-> "error", text |-> "failed to generate keyset"],
                      "done")
            /\ UNCHANGED <<store, lagging, minted>>
    /\ UNCHANGED <<handlerVars, lastKid, call>>

\* signJWT from the return of loadSigningKey.
SignJWT(i) ==
    /\ kpc[i] = "sign"
    /\ result' = [result EXCEPT ![i] =
            [kind |-> "token", kid |-> result[i].kid,
             token |-> SignedToken(result[i], call[i].payload)]]
    /\ kpc' = [kpc EXCEPT ![i] = "done"]
    /\ UNCHANGED <<store, handlerVars, lagging, minted, lastKid, call,
                   depth, generated>>

\* The caller of signJWT hands the token to verifyToken, at a time when the
\* certs endpoint publishes the signer's key (shared) or does not.
VerifySigned(i, time, shared) ==
    /\ kpc[i] = "done"
    /\ result[i].kind = "token"
    /\ LET jwks == IF shared THEN AccessKids \cup {result[i].kid} ELSE AccessKids
           v == VerifyTokenWith(result[i].token, time, jwks)
       IN  result' = [result EXCEPT ![i] =
               [kind |-> "claims", kid |-> result[i].kid, ok |-> v.ok,
                err |-> v.err, time |-> time, jwks |-> jwks,
                token |-> result[i].token,
                claims |-> Claims(result[i].token)]]
    /\ UNCHANGED <<store, handlerVars, lagging, minted, lastKid, kpc, call,
                   depth, generated>>

\* The call is over: the caller has what it returned.
ReturnKeys(i) ==
    /\ kpc[i] = "done"
    /\ lastKid' = IF result[i].kind = "error" THEN lastKid ELSE result[i].kid
    /\ kpc' = [kpc EXCEPT ![i] = "idle"]
    /\ call' = [call EXCEPT ![i] = NoCall]
    /\ depth' = [depth EXCEPT ![i] = 0]
    /\ generated' = [generated EXCEPT ![i] = 0]
    /\ result' = [result EXCEPT ![i] = NoResult]
    /\ UNCHANGED <<store, handlerVars, lagging, minted>>

\* The last write has reached every reader.
Settle ==
    /\ lagging # {}
    /\ lagging' = {}
    /\ UNCHANGED <<store, handlerVars, minted, lastKid, kpc, call,
                   depth, generated, result>>

KeyStep(i) ==
    \/ \E v \in Readable : LoadSigningKey(i, v)
    \/ \E v \in Readable : LoadPublicKey(i, v)
    \/ \E accepted \in BOOLEAN : GenerateKeys(i, accepted)
    \/ SignJWT(i)
    \/ ReturnKeys(i)

\* A fresh deployment, whose config source answers with one document.
InitKeys == InitWith({[status |-> 200, doc |-> "new"]})

\* Callers of the key code in flight together.
NextKeys ==
    \/ \E i \in Inv, op \in KeyOps : Call(i, op, Payload(MaxNow, "a@b"))
    \/ \E i \in Inv : KeyStep(i)
    \/ Settle

SpecKeys == InitKeys /\ [][NextKeys]_vars

\* One caller at a time, with every payload.
NextKeysOne ==
    \/ \E op \in KeyOps, payload \in Payloads : Call(1, op, payload)
    \/ KeyStep(1)
    \/ \E time \in 0..MaxNow, shared \in BOOLEAN : VerifySigned(1, time, shared)
    \/ Settle

SpecKeysOne == InitKeys /\ [][NextKeysOne]_vars

\* The steps of a caller whose reads all return the record last put.
KeyStepFresh(i) ==
    \/ LoadSigningKey(i, store[SigningKey])
    \/ LoadPublicKey(i, store[SigningKey])
    \/ \E accepted \in BOOLEAN : GenerateKeys(i, accepted)
    \/ SignJWT(i)
    \/ ReturnKeys(i)

\* Callers of the key code in flight together, on a store without lag.
NextKeysFresh ==
    \/ \E i \in Inv, op \in KeyOps : Call(i, op, Payload(MaxNow, "a@b"))
    \/ \E i \in Inv : KeyStepFresh(i)
    \/ Settle

SpecKeysFresh == InitKeys /\ [][NextKeysFresh]_vars

\* One invocation of handleRequest and one caller of the key code, side by
\* side on the one store.
NextBoth ==
    \/ \E r \in Requests : Receive(1, r)
    \/ Step(1)
    \/ \E r \in LiveResponses : RemoteChange(r)
    \/ \E op \in KeyOps : Call(1, op, Payload(MaxNow, "a@b"))
    \/ KeyStep(1)
    \/ Settle

SpecBoth == Init /\ [][NextBoth]_vars

\* ------------------------------------------------------------------ claims

ConfigFailure == TextResponse(500, <<"failed to get config from github">>)

\* The tables of the two documents the tests serve and pre-store.
NewTable == ParseYaml("new").value
OldTable == ParseYaml("old").value

C2_Non200Gives500Body ==
    \A i \in Inv :
        (pc[i] = "done" /\ resp[i] # NoFetch /\ resp[i].status # 200)
        => response[i] = ConfigFailure

\* C3: the step in which a refresh attempt fails (status not 200, or a body
\* that does not parse) leaves every record of the store as it was, and
\* whatever step changes the store writes the whole document that one
\* invocation parsed from a 200 answer, never a part of it.
C3_FailedRefreshKeepsStore ==
    [][/\ \A i \in Inv :
            (pc[i] = "refresh" /\ pc'[i] # "refresh" /\ ~RefreshResult(remote).ok)
            => store' = store
       /\ store' # store
            => \E i \in Inv :
                 /\ pc[i] = "put" /\ resp[i].status = 200
                 /\ ParseYaml(resp[i].doc).ok
                 /\ store'[ConfigKey] = ParseYaml(resp[i].doc).value]_vars

\* C3 witness: a GET /config whose refresh failed on a body that does not
\* parse has ended, and the old table is still the record.
C3_Witness ==
    \E i \in Inv :
        /\ pc[i] = "done" /\ phase[i] = "handler"
        /\ resp[i] = [status |-> 200, doc |-> "malformed"]
        /\ response[i].status = 500
        /\ store[ConfigKey] = OldTable

\* The invocation got as far as its routes: its table is loaded and no
\* exception has left handleRequest.
Routed(i) ==
    /\ pc[i] \in {"backend", "identity", "done"}
    /\ response[i].body.kind # "uncaught"

\* The first path segment of the request, "" when the path has none.
FirstOf(i) == IF PathParts(req[i].path) = <<>> THEN "" ELSE PathParts(req[i].path)[1]

RECURSIVE SplitOn(_, _)
\* String.prototype.split: the parts of s between its separators.
SplitOn(s, sep) ==
    LET at == IndexOf(s, sep, 1)
    IN  IF at = 0 THEN <<s>>
        ELSE <<SubSeq(s, 1, at - 1)>> \o SplitOn(SubSeq(s, at + 1, Len(s)), sep)

\* A URL up to its '?', and the pieces of its query after it.
UrlBeforeQuery(url) ==
    IF IndexOf(url, "?", 1) = 0 THEN url ELSE SubSeq(url, 1, IndexOf(url, "?", 1) - 1)
UrlQueryPieces(url) ==
    IF IndexOf(url, "?", 1) = 0 THEN <<>>
    ELSE SplitOn(SubSeq(url, IndexOf(url, "?", 1) + 1, Len(url)), "&")

ProxiedMethods == {"GET", "POST", "PUT", "DELETE", "PATCH"}

C5_BareHost ==
    \A i \in Inv :
        (/\ outbound[i] # <<>>
         /\ Len(PathParts(req[i].path)) = 1
         /\ req[i].query = <<>>)
        => outbound[i][1].url =
             <<"https://", Table(workloadConfig[i])[FirstOf(i)].host>>

\* C6: the outbound request carries a body exactly when the inbound method
\* is POST, PUT or PATCH, and then its bytes are the inbound body's bytes.
C6_BodyOnlyForPostPutPatch ==
    \A i \in Inv :
        outbound[i] # <<>>
        => /\ outbound[i][1].body.present <=> req[i].method \in {"POST", "PUT", "PATCH"}
           /\ outbound[i][1].body.present
                => outbound[i][1].body.bytes = req[i].body.bytes
           /\ ~outbound[i][1].body.present => outbound[i][1].body = NoBody

\* C6 witness: a PATCH forwarded with its two bytes.
C6_Witness ==
    \E i \in Inv :
        /\ req[i].method = "PATCH" /\ req[i].body = Bytes(<<123, 125>>)
        /\ Len(outbound[i]) = 1
        /\ outbound[i][1].body = Bytes(<<123, 125>>)

\* C7: every inbound header other than host is in the outbound request with
\* its name and value, and the outbound host header is the backend host.
C7_HeadersCopied ==
    \A i \in Inv :
        outbound[i] # <<>>
        => /\ \A n \in DOMAIN req[i].headers \ {"host"} :
                /\ n \in DOMAIN outbound[i][1].headers
                /\ outbound[i][1].headers[n] = req[i].headers[n]
           /\ outbound[i][1].headers["host"] =
                Table(workloadConfig[i])[FirstOf(i)].host

\* C8: when the outbound call throws, the answer is 500 with the fixed body
\* 'Error forwarding request to remote host', no exception leaves the
\* worker, and no text of the error is in the body.
C8_ForwardErrorIsFixed500 ==
    \A i \in Inv :
        (pc[i] = "done" /\ outcome[i].threw)
        => /\ response[i] =
                TextResponse(500, <<"Error forwarding request to remote host">>)
           /\ \A k \in 1..Len(response[i].body.text) :
                \A j \in 1..Len(outcome[i].error) :
                    response[i].body.text[k] # outcome[i].error[j]

\* C8 witness: a forwarded request whose outbound call threw has ended.
C8_Witness ==
    \E i \in Inv :
        /\ pc[i] = "done" /\ Len(outbound[i]) = 1
        /\ outcome[i].threw /\ outcome[i].error = <<"Network Error">>
        /\ response[i].status = 500

\* The body of a response names the workload: its text holds the name.
Names(answer, name) ==
    /\ answer.body.kind = "text"
    /\ \E k \in 1..Len(answer.body.text) : answer.body.text[k] = name

OnWorkloadRoute(r) ==
    \/ r.method = "GET" /\ Len(r.path) = 1
    \/ r.method \in ProxiedMethods /\ Len(r.path) >= 2

\* C10 as stated: every workload name of the table an invocation uses,
\* whatever its provider, has its requests dispatched to its backend host.
C10_EveryWorkloadRouted ==
    \A i \in Inv :
        LET table == Table(workloadConfig[i])
        IN  (/\ pc[i] = "done" /\ Routed(i)
             /\ req[i].path[1] \in DOMAIN table
             /\ OnWorkloadRoute(req[i]))
            => /\ Len(outbound[i]) = 1
               /\ outbound[i][1].url[2] = table[req[i].path[1]].host

\* C10 as amended: every workload name of the table whose declared provider
\* is a registered one has its requests dispatched to its backend host; a
\* workload with any other provider has no routes and nothing is sent to
\* its host.
C10_RegisteredProviderRouted ==
    \A i \in Inv :
        LET table == Table(workloadConfig[i])
        IN  (/\ pc[i] = "done" /\ Routed(i)
             /\ req[i].path[1] \in DOMAIN table
             /\ OnWorkloadRoute(req[i]))
            => IF table[req[i].path[1]].provider \in Providers
               THEN /\ Len(outbound[i]) = 1
                    /\ outbound[i][1].url[2] = table[req[i].path[1]].host
               ELSE outbound[i] = <<>>

\* C10 witness: with a table of two workloads, one of an unregistered
\* provider, a DELETE to the other has been sent to its host.
C10_Witness ==
    \E i \in Inv :
        /\ pc[i] = "done"
        /\ workloadConfig[i] = ParseYaml("mixed").value
        /\ req[i].method = "DELETE" /\ req[i].path = <<"workload1", "path">>
        /\ Len(outbound[i]) = 1
        /\ outbound[i][1].url[2] = "foo.com"

\* ---------------------------------------------------- the identity route

\* The invocation has answered from getUserAndHistory.
Verified(i) ==
    /\ pc[i] = "done"
    /\ RouteOf(req[i], Table(workloadConfig[i])) = "identity"
    /\ response[i].body.kind # "uncaught"

\* A response that carries a user identity.
IsIdentity(r) ==
    /\ r.status = 200
    /\ r.body.kind = "json"
    /\ r.body.json.t = "identity"

\* A JSON error response of app.onError.
IsError(r) ==
    /\ r.status = 500
    /\ r.body.kind = "json"
    /\ r.body.json.t = "error"

\* The token is well formed, signed by a published key and not expired at t.
Passes(token, t) ==
    /\ token.segments = 3
    /\ token.decodes
    /\ token.kid \in AccessKids
    /\ token.signer = token.kid
    /\ ~(token.exp < t)

DefaultUser ==
    Resp(200, JsonBody([t |-> "identity", user |-> "unknown user",
                        history |-> <<"insert identity history0 here",
                                      "insert identity history1 here">>]))

InternalErrorTexts ==
    {<<"Error: token must have 3 parts">>, <<"SyntaxError">>,
     <<"Error: failed to verify token">>, <<"Error: expired token">>}

\* C13 as stated: no response to a failed verification carries the text of
\* the error that verifyToken threw.
C13_NoErrorTextInResponse ==
    \A i \in Inv :
        Verified(i) /\ IsError(response[i])
            => response[i].body.json.err \notin InternalErrorTexts

\* C15 as stated: a three-segment token whose exp is less than the time of
\* the verification fails with the expired-token error, whatever its
\* signature.
C15_ExpiredGivesExpiredError ==
    \A i \in Inv :
        Verified(i) /\ req[i].cookie.segments = 3 /\ req[i].cookie.exp < now[i]
            => /\ IsError(response[i])
               /\ response[i].body.json.err = <<"Error: expired token">>

\* C15: a three-segment token whose exp is less than the time of the
\* verification never verifies; the error is the expired-token error when
\* the token decodes, names a published key and carries that key's
\* signature, and the error of the earlier check that fails otherwise.
C15_ExpiredNeverVerifies ==
    \A i \in Inv :
        Verified(i) /\ req[i].cookie.segments = 3 /\ req[i].cookie.exp < now[i]
            => /\ IsError(response[i])
               /\ LET c == req[i].cookie
                      err == response[i].body.json.err
                  IN  /\ err = <<"Error: expired token">>
                            <=> c.decodes /\ c.kid \in AccessKids /\ c.signer = c.kid
                      /\ ~c.decodes => err = <<"SyntaxError">>
                      /\ c.decodes /\ c.kid \notin AccessKids => err = <<"TypeError">>
                      /\ c.decodes /\ c.kid \in AccessKids /\ c.signer # c.kid
                            => err = <<"Error: failed to verify token">>

\* C15 witness: an expired token with a bad signature has been refused.
C15_Witness ==
    \E i \in Inv :
        /\ Verified(i)
        /\ req[i].cookie.segments = 3 /\ req[i].cookie.decodes
        /\ req[i].cookie.kid \in AccessKids
        /\ req[i].cookie.signer # req[i].cookie.kid
        /\ req[i].cookie.exp < now[i]
        /\ IsError(response[i])

\* C16: a token that does not split into three segments fails with the
\* error of parseJWT, and verifyToken has then made no call to the certs
\* endpoint (and so has no key to check a signature with).
C16_MalformedFailsBeforeFetch ==
    \A i \in Inv :
        Verified(i) /\ req[i].cookie.segments # 3
            => /\ IsError(response[i])
               /\ response[i].body.json.err = <<"Error: token must have 3 parts">>
               /\ certFetches[i] = 0

\* C16 witness: the identity handler has refused a token of four segments
\* whose first two decode.
C16_Witness ==
    \E i \in Inv :
        /\ Verified(i)
        /\ req[i].cookie.segments = 4
        /\ req[i].cookie.decodes
        /\ IsError(response[i])

\* ------------------------------------------------------------ the key set

\* The call has returned a key id: as a JWK, a signing handle, a token or
\* the claims of a token.
HasKid(r) == r.kind \in {"jwk", "handle", "token", "claims"}

\* C14 as stated: when the certs endpoint publishes the key signJWT signed
\* with and the payload's exp is not below the verifier's clock,
\* verifyToken of the signed token returns claims equal to the payload.
C14_RoundTrip ==
    \A i \in Inv :
        /\ result[i].kind = "claims"
        /\ result[i].kid \in result[i].jwks
        /\ ~(call[i].payload.exp < result[i].time)
        => result[i].ok /\ result[i].claims = call[i].payload

\* C17 as stated: a call that loads or creates the key set returns the kid
\* that the call before it returned; the calls run one after the other and
\* nothing deletes the record.
C17_KidStable ==
    \A i \in Inv :
        kpc[i] = "done" /\ HasKid(result[i]) /\ lastKid # ""
            => result[i].kid = lastKid

C20_OneGenerationOneRetry ==
    \A i \in Inv : generated[i] <= 1 /\ depth[i] <= 2

\* The record is the whole key set of one generated pair: public half,
\* private half and kid of the same pair.
WholeKeySet(v) ==
    /\ v.t = "keyset"
    /\ v.public.half = "public" /\ v.private.half = "private"
    /\ v.public.pair = v.private.pair
    /\ v.kid = GenerateKID(v.public)
    /\ \E n \in 1..minted : v = KeySet(KeyPairs[n])

\* C21: under every interleaving of callers that generate and put a key
\* set, the key-set record, and every record a read may still return, is
\* absent or the whole record one call wrote: kid, public key and private
\* key of one generated pair, never parts of two calls' writes.
C21_KeySetWhole ==
    \A v \in Readable : v = NoRecord \/ WholeKeySet(v)

\* C21 witness: two callers stand in the key code, two pairs have been
\* generated, and the second caller's record has replaced the first's.
C21_Witness ==
    /\ minted = 2
    /\ \A i \in Inv : kpc[i] # "idle" /\ call[i].op # ""
    /\ store[SigningKey] = KeySet(KeyPairs[2])
    /\ lagging = {KeySet(KeyPairs[1])}

\* C27 as stated: once signJWT has returned a token whose header names the
\* kid k, the key-set record has the kid k, in the state of the return and
\* in every state in which the caller holds the token.
C27_IssuedKidPersisted ==
    \A i \in Inv :
        result[i].kind = "token"
            => /\ store[SigningKey] # NoRecord
               /\ store[SigningKey].kid = result[i].token.kid

\* C22: ordering inside one invocation. handleRequest comes to its routes
\* (registers them and looks one up) only from a read of the routing record
\* that found a table, or from the put of its cold-start refresh, with that
\* table as its own; a handler runs (an outbound call, the identity check,
\* the reload of GET /config) only from there. signJWT comes to its
\* signature only from a loadSigningKey that returned the handle of a record
\* it read, after whatever pair this call generated was put, and a token
\* is made only with that handle.
C22_LoadBeforeUse ==
    [][\A i \in Inv :
         /\ pc'[i] = "route" /\ pc[i] # "route"
              => \/ /\ pc[i] = "load"
                    /\ ~Falsy(KvGetJson(store[ConfigKey]))
                    /\ workloadConfig'[i] = KvGetJson(store[ConfigKey])
                 \/ /\ pc[i] = "put" /\ phase[i] = "cold"
                    /\ resp[i].status = 200
                    /\ store'[ConfigKey] = jsonData[i]
                    /\ workloadConfig'[i] = jsonData[i]
         /\ \/ pc'[i] \in {"backend", "identity"} /\ pc'[i] # pc[i]
            \/ phase'[i] = "handler" /\ phase[i] # "handler"
            \/ Len(outbound'[i]) > Len(outbound[i])
              => pc[i] = "route"
         /\ kpc'[i] = "sign" /\ kpc[i] # "sign"
              => /\ kpc[i] = "loadSigningKey" /\ call[i].op = "signJWT"
                 /\ result'[i].kind = "handle"
                 /\ \E v \in Readable \ {NoRecord} :
                        result'[i].kid = v.kid /\ result'[i].privateKey = v.private
                 /\ generated[i] > 0
                      => minted >= generated[i] /\ store[SigningKey] # NoRecord
                 /\ store' = store
         /\ result'[i].kind = "token" /\ result[i].kind # "token"
              => /\ kpc[i] = "sign" /\ result[i].kind = "handle"
                 /\ result'[i].token.kid = result[i].kid
                 /\ result'[i].token.signer
                      = GenerateKID(PublicJwk(result[i].privateKey.pair))]_vars

\* C22 witness: an invocation that found no routing record has refreshed,
\* stored the table and forwarded a request with it, and a signJWT that
\* found no key set has made a token with the pair it generated and put.
C22_Witness ==
    /\ pc[1] = "backend" /\ resp[1] = [status |-> 200, doc |-> "new"]
    /\ workloadConfig[1] = NewTable /\ store[ConfigKey] = NewTable
    /\ Len(outbound[1]) = 1
    /\ kpc[1] = "done" /\ call[1].op = "signJWT"
    /\ result[1].kind = "token" /\ result[1].kid = "kid1"
    /\ minted = 1 /\ store[SigningKey] = KeySet(KeyPairs[1])

\* ------------------------------------------------------------ the reload

\* The request is GET /config.
ConfigRequest(i) == req[i].method = "GET" /\ req[i].path = <<"config">>

\* The last fetch of the remote source that the invocation made failed.
RefreshFailed(i) == resp[i] # NoFetch /\ ~RefreshResult(resp[i]).ok

\* What an invocation that reloads the table does to store and source: after
\* a read that found nothing two fetches, each followed by its put, and
\* after a read that found a table one fetch and its put.
ReloadEffects(first) ==
    IF first = "get:null"
    THEN <<"get:null", "fetch", "put", "fetch", "put">>
    ELSE <<"get:table", "fetch", "put">>

\* C23 as stated: a GET /config whose fetches of the remote source all
\* succeed makes exactly two fetches and two puts when its read of the
\* routing record found nothing, and exactly one fetch and one put when it
\* found a table.
C23_ConfigAlwaysReloads ==
    \A i \in Inv :
        pc[i] = "done" /\ ConfigRequest(i) /\ ~RefreshFailed(i)
            => effects[i] = ReloadEffects(effects[i][1])

\* The same for every table that has no workload named config with a
\* registered provider; with such a table GET /config is forwarded to that
\* workload's host and nothing is reloaded.
C23_ReloadsUnlessShadowed ==
    \A i \in Inv :
        pc[i] = "done" /\ ConfigRequest(i) /\ ~RefreshFailed(i)
            => IF RouteOf(req[i], Table(workloadConfig[i])) = "config"
               THEN effects[i] = ReloadEffects(effects[i][1])
               ELSE /\ Len(outbound[i]) = 1
                    /\ effects[i] \in {<<"get:table">>, <<"get:null", "fetch", "put">>}

\* ------------------------------------------------------------- the relay

\* C24: when the outbound call returns a response, the answer to the client
\* is that response as it is, status and body, whatever the status (204, 404
\* and 500 as 200); the fixed 500 message of the dispatcher is the answer
\* only to a call that threw.
C24_BackendResponseRelayed ==
    \A i \in Inv :
        pc[i] = "done" /\ Len(outbound[i]) = 1 /\ ~outcome[i].threw
            => /\ response[i] = outcome[i].response
               /\ response[i]
                    # TextResponse(500, <<"Error forwarding request to remote host">>)

\* C24 witness: a DELETE whose backend answered 500 with its own text has
\* been answered with that response.
C24_Witness ==
    \E i \in Inv :
        /\ pc[i] = "done" /\ req[i].method = "DELETE" /\ Len(outbound[i]) = 1
        /\ outcome[i] = [threw |-> FALSE, error |-> <<>>,
                         response |-> TextResponse(500, <<"backend failure">>)]
        /\ response[i] = TextResponse(500, <<"backend failure">>)

\* ------------------------------------------------------ the routing record

\* Every workload of the table has a host that is not the empty string.
HostsNonEmpty(table) == \A name \in DOMAIN table : table[name].host # ""

\* C25 as stated: every workload name in the persisted routing table, and
\* in the table an invocation dispatches with, has a non-empty host,
\* whatever document the remote source served with status 200.
C25_HostsNonEmpty ==
    /\ HostsNonEmpty(Table(KvGetJson(store[ConfigKey])))
    /\ \A i \in Inv :
         pc[i] \in {"route", "backend", "identity", "done"}
            => HostsNonEmpty(Table(workloadConfig[i]))

\* The tables the remote source may serve: the whole parsed document of one
\* of its 200 answers.
ServedTables ==
    {ParseYaml(r.doc).value : r \in {a \in LiveResponses :
                                        a.status = 200 /\ ParseYaml(a.doc).ok}}

\* The invocation has made a put.
HasPut(i) == \E k \in 1..Len(effects[i]) : effects[i][k] = "put"

\* C26: under every interleaving of refreshes of different invocations
\* (cold-start loads and GET /config reloads), with a remote document that
\* changes between their fetches, the routing record is absent or the whole
\* table parsed from one remote answer; it never holds workloads of two
\* answers.
C26_RecordFromOneResponse ==
    /\ store[ConfigKey] = NoRecord \/ store[ConfigKey] \in ServedTables
    /\ store[ConfigKey] # NoRecord
         => DOMAIN Table(store[ConfigKey]) \in {{"workload1"}, {"oldWorkload"}}

\* C26 witness: two invocations in flight have fetched different documents
\* and both have put; the record is the table of one of the two.
C26_Witness ==
    \E i, j \in Inv :
        /\ resp[i] = [status |-> 200, doc |-> "new"]
        /\ resp[j] = [status |-> 200, doc |-> "old"]
        /\ HasPut(i) /\ HasPut(j)
        /\ store[ConfigKey] = OldTable

====
